---- MODULE Spec2Model ----
(***************************************************************************)
(* A model of the device handle of zhinst-qcodes as the quick start guide  *)
(* (examples/example1_getting_started.ipynb) uses and documents it: the    *)
(* constructor ziqc.HDAWG with its defaults, the connection to the data    *)
(* server and to the device, get_idn, the nodetree with its ChannelLists   *)
(* and Parameters, and reading and writing a Parameter by calling it.      *)
(***************************************************************************)
EXTENDS Integers, Sequences, FiniteSets, TLC

(* ------------------------------ bounds -------------------------------- *)
\* values a caller passes to a Parameter: 0 .. MaxVal
MaxVal == 2
\* the device stores a Double in multiples of Resolution
Resolution == 2
\* number of oscillators (16 on the HDAWG) and sine generators (8) modelled
NumOscs == 2
NumSines == 2
\* leaves that hold a written value at one time (a power cycle clears them)
MaxWritten == 1
\* calls of connect_device after the constructor
MaxConnects == 1

(* ------------------------- constructor inputs -------------------------- *)
NoArg == "<omitted>"
None == "<none>"
Names == {"hdawg1", "awg"}
Serials == {"dev8138", "DEV1234"}
InterfaceArgs == {NoArg, "1gbe"}
HostArgs == {NoArg, "10.42.0.226"}

\* the defaults of `interface` and `host`
DefaultInterface == "1GbE"
DefaultHost == "localhost"

\* str.upper() on the strings of the model, as in the connection messages
\* ("dev8138" is reported as DEV8138, "1gbe" as 1GBE)
Upper(s) ==
    CASE s = "dev8138" -> "DEV8138"
      [] s = "DEV1234" -> "DEV1234"
      [] s = "1GbE" -> "1GBE"
      [] s = "1gbe" -> "1GBE"
      [] s = "usb" -> "USB"
      [] OTHER -> s

(* ------------------------------ the device ----------------------------- *)
\* firmware revisions the device can run
FwVersions == {66245, 66300}

Digits == <<"0", "1", "2", "3", "4", "5", "6", "7", "8", "9">>
\* str(i) and int(s) for the indices of enumerated nodes
IndexStr(i) == Digits[i + 1]
IsIndex(s) == \E k \in 1..Len(Digits) : Digits[k] = s
IndexInt(s) == (CHOOSE k \in 1..Len(Digits) : Digits[k] = s) - 1

\* one entry of the device's node listing
Entry(path, unit, type, props) ==
    [path |-> path, unit |-> unit, type |-> type, props |-> props]

\* the nodes the firmware exposes: /DEV.../OSCS/n/FREQ, /DEV.../SINES/n/HARMONIC,
\* /DEV.../SIGOUTS/n/ON, /DEV.../SYSTEM/FWREVISION, /DEV.../CLOCKBASE
Listing(f) ==
    {Entry(<<"oscs", IndexStr(i), "freq">>, "Hz", "Double", "Read, Write, Setting")
        : i \in 0..(NumOscs - 1)}
    \cup {Entry(<<"sines", IndexStr(i), "harmonic">>, "None", "Integer", "Read, Write, Setting")
        : i \in 0..(NumSines - 1)}
    \cup {Entry(<<"system", "fwrevision">>, "None", "Integer", "Read"),
          Entry(<<"clockbase">>, "Hz", "Double", "Read")}
    \cup (IF f = 66300
          THEN {Entry(<<"sigouts", "0", "on">>, "None", "Integer", "Read, Write, Setting")}
          ELSE {})

ListingPaths(f) == {e.path : e \in Listing(f)}
AllPaths == UNION {ListingPaths(f) : f \in FwVersions}

VARIABLES
    pc,          \* "new"; "init", "server", "device" inside the constructor;
                 \* "ready" (connected); "disconnected"
    handle,      \* the handle's name, serial, interface and host
    args,        \* the arguments the constructor was called with
    log,         \* the messages printed while connecting
    fw,          \* the firmware the device runs
    devVal,      \* the value the device holds for each of its nodes
    fwAtConnect, \* {the firmware the device ran at the most recent connect}
    nodetree,    \* hdawg.nodetree: path -> Parameter of the toolkit
    submodules,  \* the handle's tree of submodules and Parameters
    lastWrite,   \* per written node, the value last passed to its Parameter
    ret          \* what the last call returned

vars == <<pc, handle, args, log, fw, devVal, fwAtConnect, nodetree, submodules,
          lastWrite, ret>>

NoHandle == [name |-> None, serial |-> None, interface |-> None, host |-> None]
Empty == [p \in {} |-> None]

\* the record of a call: what was called, on which path, through which access
\* path, with which argument, and what it returned
Ret(op, path, via, arg, val) ==
    [op |-> op, path |-> path, via |-> via, arg |-> arg, val |-> val]
NoRet == Ret("none", <<>>, None, None, None)

(* ------------------------------ the nodetree --------------------------- *)
Prefixes(p) == {SubSeq(p, 1, k) : k \in 1..Len(p)}
Children(nodes, p) == {q \in nodes : Len(q) = Len(p) + 1 /\ SubSeq(q, 1, Len(p)) = p}
Last(p) == p[Len(p)]

\* the toolkit's nodetree: one Parameter for every node of the listing
BuildNodetree(listing) ==
    [p \in {e.path : e \in listing} |->
        LET e == CHOOSE x \in listing : x.path = p
        IN  [node |-> e.path, unit |-> e.unit, type |-> e.type, props |-> e.props]]

\* the children of an enumerated node in the order of their indices
Channels(nodes, p) ==
    LET cs == Children(nodes, p)
        Rank(c) == Cardinality({d \in cs : IndexInt(Last(d)) < IndexInt(Last(c))})
    IN  [k \in 1..Cardinality(cs) |-> CHOOSE c \in cs : Rank(c) = k - 1]

\* a variant that tells the kind of a node from its name alone: an index makes
\* a ZINode, a node with enumerated children a ChannelList, any other node a
\* Parameter
BuildSubmodulesByName(nt) ==
    LET nodes == UNION {Prefixes(p) : p \in DOMAIN nt}
    IN  [p \in nodes |->
            IF IsIndex(Last(p))
            THEN [kind |-> "ZINode", node |-> <<>>, unit |-> None, type |-> None,
                  props |-> None, channels |-> <<>>]
            ELSE IF Children(nodes, p) # {} /\ \A c \in Children(nodes, p) : IsIndex(Last(c))
            THEN [kind |-> "ChannelList", node |-> <<>>, unit |-> None, type |-> None,
                  props |-> None, channels |-> Channels(nodes, p)]
            ELSE IF p \in DOMAIN nt
            THEN [kind |-> "Parameter", node |-> nt[p].node, unit |-> nt[p].unit,
                  type |-> nt[p].type, props |-> nt[p].props, channels |-> <<>>]
            ELSE [kind |-> "Parameter", node |-> <<>>, unit |-> None, type |-> None,
                  props |-> None, channels |-> <<>>]]

\* a variant that binds the Parameters of all channels of a ChannelList to the
\* nodes of its last channel (the loop variable captured late)
BuildSubmodulesLateBound(nt) ==
    LET nodes == UNION {Prefixes(p) : p \in DOMAIN nt}
        LastOf(p) == IF Len(p) = 3
                     THEN <<p[1], IndexStr(Cardinality(Children(nodes, <<p[1]>>)) - 1), p[3]>>
                     ELSE p
    IN  [p \in nodes |->
            IF p \in DOMAIN nt
            THEN [kind |-> "Parameter", node |-> nt[LastOf(p)].node, unit |-> nt[p].unit,
                  type |-> nt[p].type, props |-> nt[p].props, channels |-> <<>>]
            ELSE IF \A c \in Children(nodes, p) : IsIndex(Last(c))
            THEN [kind |-> "ChannelList", node |-> <<>>, unit |-> None, type |-> None,
                  props |-> None, channels |-> Channels(nodes, p)]
            ELSE [kind |-> "ZINode", node |-> <<>>, unit |-> None, type |-> None,
                  props |-> None, channels |-> <<>>]]

\* the handle's submodules, added recursively from the nodetree: a ChannelList
\* for an enumerated node, a ZINode (an InstrumentChannel) for any other
\* inner node, a QCoDeS Parameter for a leaf
BuildSubmodules(nt) ==
    LET nodes == UNION {Prefixes(p) : p \in DOMAIN nt}
    IN  [p \in nodes |->
            IF p \in DOMAIN nt
            THEN [kind |-> "Parameter", node |-> nt[p].node, unit |-> nt[p].unit,
                  type |-> nt[p].type, props |-> nt[p].props, channels |-> <<>>]
            ELSE IF \A c \in Children(nodes, p) : IsIndex(Last(c))
            THEN [kind |-> "ChannelList", node |-> <<>>, unit |-> None, type |-> None,
                  props |-> None, channels |-> Channels(nodes, p)]
            ELSE [kind |-> "ZINode", node |-> <<>>, unit |-> None, type |-> None,
                  props |-> None, channels |-> <<>>]]

\* the value the device holds for a node after power-up or a firmware update
DefaultVal(f, p) == IF p = <<"system", "fwrevision">> THEN f ELSE 0

\* a variant with a grid twice as coarse as the device's resolution
DeviceValueCoarse(type, v) ==
    IF type = "Double" THEN (v \div (2 * Resolution)) * (2 * Resolution) ELSE v

\* the value the device stores when v is written to a node of the given type:
\* a Double is stored on the device's grid (100e6 Hz reads back as
\* 99999999.99999432 Hz), an Integer as it is
DeviceValue(type, v) ==
    IF type = "Double" THEN (v \div Resolution) * Resolution ELSE v

Msg(kind, a, b) == [kind |-> kind, a |-> a, b |-> b]

Init ==
    /\ pc = "new"
    /\ handle = NoHandle
    /\ args = NoHandle
    /\ log = <<>>
    /\ fw \in FwVersions
    /\ devVal = [p \in ListingPaths(fw) |-> DefaultVal(fw, p)]
    /\ fwAtConnect = {}
    /\ nodetree = Empty
    /\ submodules = Empty
    /\ lastWrite = Empty
    /\ ret = NoRet

\* a variant of the constructor that does not pass `interface` on
HDAWGDropsInterface(n, s, i, h) ==
    /\ pc = "new"
    /\ pc' = "init"
    /\ args' = [name |-> n, serial |-> s, interface |-> i, host |-> h]
    /\ handle' = [name |-> n, serial |-> s,
                  interface |-> DefaultInterface,
                  host |-> IF h = NoArg THEN DefaultHost ELSE h]
    /\ UNCHANGED <<log, fw, devVal, fwAtConnect, nodetree, submodules, lastWrite, ret>>

\* ziqc.HDAWG(name, serial, interface=..., host=...): the fields of the handle
HDAWG(n, s, i, h) ==
    /\ pc = "new"
    /\ pc' = "init"
    /\ args' = [name |-> n, serial |-> s, interface |-> i, host |-> h]
    /\ handle' = [name |-> n, serial |-> s,
                  interface |-> IF i = NoArg THEN DefaultInterface ELSE i,
                  host |-> IF h = NoArg THEN DefaultHost ELSE h]
    /\ UNCHANGED <<log, fw, devVal, fwAtConnect, nodetree, submodules, lastWrite, ret>>

\* inside the constructor: "Successfully connected to data server at <host>"
ConnectDataServer ==
    /\ pc = "init"
    /\ pc' = "server"
    /\ log' = Append(log, Msg("data server", handle.host, None))
    /\ UNCHANGED <<handle, args, fw, devVal, fwAtConnect, nodetree, submodules,
                   lastWrite, ret>>

\* a variant that creates the submodules at the first connect only
InitSubmodulesOnce ==
    /\ nodetree' = IF nodetree = Empty THEN BuildNodetree(Listing(fw)) ELSE nodetree
    /\ submodules' = IF submodules = Empty
                     THEN BuildSubmodules(BuildNodetree(Listing(fw)))
                     ELSE submodules
    /\ fwAtConnect' = {fw}

\* connecting the device to the data server creates the nodetree and the
\* submodules anew from the nodes the device's firmware lists
InitSubmodules ==
    /\ nodetree' = BuildNodetree(Listing(fw))
    /\ submodules' = BuildSubmodules(BuildNodetree(Listing(fw)))
    /\ fwAtConnect' = {fw}

\* inside the constructor: "Successfully connected to device <SERIAL> on
\* interface <INTERFACE>"
ConnectDevice ==
    /\ pc = "server"
    /\ pc' = "device"
    /\ log' = Append(log, Msg("device", Upper(handle.serial), Upper(handle.interface)))
    /\ InitSubmodules
    /\ UNCHANGED <<handle, args, fw, devVal, lastWrite, ret>>

\* the constructor returns: "Connected to: Zurich Instruments HDAWG
\* (serial:<serial>, firmware:<firmware>)"
Return ==
    /\ pc = "device"
    /\ pc' = "ready"
    /\ log' = Append(log, Msg("connected", handle.serial, devVal[<<"system", "fwrevision">>]))
    /\ UNCHANGED <<handle, args, fw, devVal, fwAtConnect, nodetree, submodules,
                   lastWrite, ret>>

\* the device's firmware is updated: the device restarts with the settings
\* of the new firmware at their defaults, and a connected handle loses it
FirmwareUpdate(f) ==
    /\ pc \in {"new", "ready", "disconnected"}
    /\ f # fw
    /\ fw' = f
    /\ devVal' = [p \in ListingPaths(f) |-> DefaultVal(f, p)]
    /\ lastWrite' = Empty
    /\ pc' = IF pc = "new" THEN "new" ELSE "disconnected"
    /\ UNCHANGED <<handle, args, log, fwAtConnect, nodetree, submodules, ret>>

\* hdawg.connect_device(): connects the device to the data server again
connect_device ==
    /\ pc \in {"ready", "disconnected"}
    /\ Len(log) < 3 + MaxConnects
    /\ pc' = "ready"
    /\ log' = Append(log, Msg("device", Upper(handle.serial), Upper(handle.interface)))
    /\ InitSubmodules
    /\ UNCHANGED <<handle, args, fw, devVal, lastWrite, ret>>

\* a variant that reports the serial as the connection message does
get_idnUpper ==
    /\ pc = "ready"
    /\ ret' = Ret("get_idn", <<>>, None, None,
                  [vendor |-> "Zurich Instruments", model |-> "HDAWG",
                   serial |-> Upper(handle.serial),
                   firmware |-> devVal[<<"system", "fwrevision">>]])
    /\ UNCHANGED <<pc, handle, args, log, fw, devVal, fwAtConnect, nodetree,
                   submodules, lastWrite>>

\* hdawg.get_idn()
get_idn ==
    /\ pc = "ready"
    /\ ret' = Ret("get_idn", <<>>, None, None,
                  [vendor |-> "Zurich Instruments", model |-> "HDAWG",
                   serial |-> handle.serial,
                   firmware |-> devVal[<<"system", "fwrevision">>]])
    /\ UNCHANGED <<pc, handle, args, log, fw, devVal, fwAtConnect, nodetree,
                   submodules, lastWrite>>

\* the two access paths of the guide: hdawg.oscs[0].freq goes through the
\* handle's submodules, hdawg.nodetree.oscs[0].freq through the nodetree
Vias == {"submodules", "nodetree"}
HasParam(via, p) ==
    IF via = "submodules"
    THEN p \in DOMAIN submodules /\ submodules[p].kind = "Parameter"
    ELSE p \in DOMAIN nodetree
Param(via, p) == IF via = "submodules" THEN submodules[p] ELSE nodetree[p]
Writable(props) == props = "Read, Write, Setting"

\* a variant that serves a read whether or not the handle is connected
ReadDisconnected(via, p) ==
    /\ pc \in {"ready", "disconnected"}
    /\ HasParam(via, p)
    /\ Param(via, p).node \in DOMAIN devVal
    /\ ret' = Ret("read", p, via, None, devVal[Param(via, p).node])
    /\ UNCHANGED <<pc, handle, args, log, fw, devVal, fwAtConnect, nodetree,
                   submodules, lastWrite>>

\* the Parameter called with no argument: the value the device holds
Read(via, p) ==
    /\ pc = "ready"
    /\ HasParam(via, p)
    /\ Param(via, p).node \in DOMAIN devVal
    /\ ret' = Ret("read", p, via, None, devVal[Param(via, p).node])
    /\ UNCHANGED <<pc, handle, args, log, fw, devVal, fwAtConnect, nodetree,
                   submodules, lastWrite>>

\* a variant that sets the leaf of the same name in every channel of the group
WriteBroadcast(via, p, v) ==
    LET node == Param(via, p).node
        same == {n \in DOMAIN devVal : Len(n) = Len(node) /\ n[1] = node[1]
                                        /\ Last(n) = Last(node)}
    IN  /\ pc = "ready"
        /\ HasParam(via, p)
        /\ Writable(Param(via, p).props)
        /\ node \in DOMAIN devVal
        /\ \/ node \in DOMAIN lastWrite
           \/ Cardinality(DOMAIN lastWrite) < MaxWritten
        /\ devVal' = [n \in DOMAIN devVal |->
                         IF n \in same THEN DeviceValue(Param(via, p).type, v)
                         ELSE devVal[n]]
        /\ lastWrite' = [n \in DOMAIN lastWrite \cup {node} |->
                            IF n = node THEN v ELSE lastWrite[n]]
        /\ ret' = Ret("write", p, via, v, None)
        /\ UNCHANGED <<pc, handle, args, log, fw, fwAtConnect, nodetree, submodules>>

\* the Parameter called with a value: the device stores it
Write(via, p, v) ==
    /\ pc = "ready"
    /\ HasParam(via, p)
    /\ Writable(Param(via, p).props)
    /\ Param(via, p).node \in DOMAIN devVal
    /\ \/ Param(via, p).node \in DOMAIN lastWrite
       \/ Cardinality(DOMAIN lastWrite) < MaxWritten
    /\ devVal' = [devVal EXCEPT ![Param(via, p).node] = DeviceValue(Param(via, p).type, v)]
    /\ lastWrite' = [n \in DOMAIN lastWrite \cup {Param(via, p).node} |->
                        IF n = Param(via, p).node THEN v ELSE lastWrite[n]]
    /\ ret' = Ret("write", p, via, v, None)
    /\ UNCHANGED <<pc, handle, args, log, fw, fwAtConnect, nodetree, submodules>>

(* ------------------------------ ChannelList ---------------------------- *)
\* channels[i] of a Python tuple of n channels (cl is 1-based here)
Index(cl, i) == IF i < 0 THEN cl[Len(cl) + i + 1] ELSE cl[i + 1]
\* a variant whose slice includes its end
SliceInclusive(cl, a, b) ==
    LET Min(x, y) == IF x < y THEN x ELSE y
    IN  SubSeq(cl, Min(a, Len(cl)) + 1, Min(b + 1, Len(cl)))

\* channels[a:b] for a, b >= 0
Slice(cl, a, b) ==
    LET Min(x, y) == IF x < y THEN x ELSE y
    IN  SubSeq(cl, Min(a, Len(cl)) + 1, Min(b, Len(cl)))

IsChannelList(g) == <<g>> \in DOMAIN submodules /\ submodules[<<g>>].kind = "ChannelList"
Groups == {p[1] : p \in AllPaths}

\* hdawg.sines[i]
GetItem(g, i) ==
    /\ pc = "ready"
    /\ IsChannelList(g)
    /\ -Len(submodules[<<g>>].channels) <= i /\ i < Len(submodules[<<g>>].channels)
    /\ ret' = Ret("getitem", <<g>>, "submodules", i, Index(submodules[<<g>>].channels, i))
    /\ UNCHANGED <<pc, handle, args, log, fw, devVal, fwAtConnect, nodetree,
                   submodules, lastWrite>>

\* hdawg.sines[a:b]
GetSlice(g, a, b) ==
    /\ pc = "ready"
    /\ IsChannelList(g)
    /\ ret' = Ret("slice", <<g>>, "submodules", <<a, b>>, Slice(submodules[<<g>>].channels, a, b))
    /\ UNCHANGED <<pc, handle, args, log, fw, devVal, fwAtConnect, nodetree,
                   submodules, lastWrite>>

MaxChannels == IF NumOscs > NumSines THEN NumOscs ELSE NumSines

\* the life of a handle: any constructor call, the connection, firmware
\* updates and reconnections, get_idn
Next ==
    \/ \E n \in Names, s \in Serials, i \in InterfaceArgs, h \in HostArgs :
          HDAWG(n, s, i, h)
    \/ ConnectDataServer
    \/ ConnectDevice
    \/ Return
    \/ \E f \in FwVersions : FirmwareUpdate(f)
    \/ connect_device
    \/ get_idn

Spec == Init /\ [][Next]_vars

\* the session of the guide: its constructor call
\* ziqc.HDAWG("hdawg1", "dev8138", interface="1gbe", host="10.42.0.226"),
\* then reads and writes of Parameters through both access paths
NextGuide ==
    \/ HDAWG("hdawg1", "dev8138", "1gbe", "10.42.0.226")
    \/ ConnectDataServer
    \/ ConnectDevice
    \/ Return
    \/ \E f \in FwVersions : FirmwareUpdate(f)
    \/ connect_device
    \/ \E via \in Vias, p \in AllPaths : Read(via, p)
    \/ \E via \in Vias, p \in AllPaths, v \in 0..MaxVal : Write(via, p, v)

SpecGuide == Init /\ [][NextGuide]_vars

\* the session of the guide, continued: indexing and slicing the ChannelLists
NextList ==
    \/ HDAWG("hdawg1", "dev8138", "1gbe", "10.42.0.226")
    \/ ConnectDataServer
    \/ ConnectDevice
    \/ Return
    \/ \E f \in FwVersions : FirmwareUpdate(f)
    \/ connect_device
    \/ \E g \in Groups, i \in (-MaxChannels - 1)..(MaxChannels + 1) : GetItem(g, i)
    \/ \E g \in Groups, a \in 0..(MaxChannels + 1), b \in 0..(MaxChannels + 1) :
          GetSlice(g, a, b)

SpecList == Init /\ [][NextList]_vars

(* ------------------------------- claims -------------------------------- *)
\* the value a read of path p returns in the current state through `via`
ReadValue(via, p) == devVal[Param(via, p).node]
Abs(x) == IF x < 0 THEN -x ELSE x
\* number of nodes the firmware enumerates below group g
GroupSize(g) == Cardinality({p[2] : p \in {q \in AllPaths : Len(q) = 3 /\ q[1] = g}})

C2_Defaults ==
    pc # "new" =>
        /\ handle.interface = (IF args.interface = NoArg THEN "1GbE" ELSE args.interface)
        /\ handle.host = (IF args.host = NoArg THEN "localhost" ELSE args.host)
        /\ handle.name = args.name
        /\ handle.serial = args.serial

\* a connected handle that was constructed with a name and a serial only
C2_Witness ==
    /\ pc = "ready"
    /\ args.interface = NoArg
    /\ args.host = NoArg
    /\ handle.interface = "1GbE"
    /\ handle.host = "localhost"

\* C3: after any sequence of connects and firmware updates, the Parameters of
\* the nodetree and of the submodules are the nodes that the firmware of the
\* most recent connect exposes.
C3_TreeIsOfLastConnect ==
    \A f \in fwAtConnect :
        /\ DOMAIN nodetree = ListingPaths(f)
        /\ {p \in DOMAIN submodules : submodules[p].kind = "Parameter"} = ListingPaths(f)
        /\ DOMAIN submodules = UNION {Prefixes(p) : p \in ListingPaths(f)}

\* the handle connected under firmware 66245 and again under 66300
C3_Witness ==
    /\ pc = "ready"
    /\ Len(log) > 3
    /\ log[3].b = 66245
    /\ fwAtConnect = {66300}
    /\ <<"sigouts", "0", "on">> \in DOMAIN submodules

C5_Idn ==
    ret.op = "get_idn" =>
        /\ DOMAIN ret.val = {"vendor", "model", "serial", "firmware"}
        /\ ret.val.serial = args.serial

\* get_idn of a handle named "awg" for the device dev8138
C5_Witness ==
    /\ ret.op = "get_idn"
    /\ args.name = "awg"
    /\ ret.val.serial = "dev8138"
    /\ ret.val.firmware = 66245

\* C6: in a connected handle the submodules form a tree whose leaves are
\* exactly the Parameters; every other node is a ChannelList or a ZINode,
\* and every Parameter has a unit, a type and its access properties.
C6_ParametersAreLeaves ==
    pc = "ready" =>
        \A p \in DOMAIN submodules :
            /\ Len(p) > 1 => SubSeq(p, 1, Len(p) - 1) \in DOMAIN submodules
            /\ submodules[p].kind = "Parameter" <=> Children(DOMAIN submodules, p) = {}
            /\ submodules[p].kind \in {"Parameter", "ChannelList", "ZINode"}
            /\ submodules[p].kind = "Parameter" =>
                  /\ submodules[p].unit # None
                  /\ submodules[p].type # None
                  /\ submodules[p].props # None

\* a connected handle with a ChannelList, a ZINode and Parameters below them
C6_Witness ==
    /\ pc = "ready"
    /\ submodules[<<"oscs">>].kind = "ChannelList"
    /\ submodules[<<"oscs", "0">>].kind = "ZINode"
    /\ submodules[<<"oscs", "0", "freq">>].kind = "Parameter"
    /\ submodules[<<"system">>].kind = "ZINode"
    /\ submodules[<<"clockbase">>].kind = "Parameter"

====
